---- MODULE Spec2Model ----
(***************************************************************************)
(* A model of the bit-board crate: the BitBoard trait (src/src/bitboard.rs), *)
(* the fixed-capacity BitBoardStatic<W> (src/src/bitboardstatic.rs) and the  *)
(* growable BitBoardDyn (src/src/lib.rs).                                    *)
(*                                                                           *)
(* A board is a record [kind, W, n_rows, n_cols, bits]; bits is the backing  *)
(* bit sequence (bit i of the storage is bits[i + 1]).  A usize is modelled  *)
(* with UsizeBits bits.  Arithmetic on usize that leaves the range panics    *)
(* when the build checks overflow and wraps when it does not; which of the   *)
(* two builds runs is fixed by overflow_checks for a whole behaviour.        *)
(* Every operation is one atomic action; a panic is recorded in last.panic   *)
(* together with the content the board had when the panic unwound.           *)
(***************************************************************************)
EXTENDS Integers, Sequences, FiniteSets

VARIABLES overflow_checks, a, b, res, last

vars == <<overflow_checks, a, b, res, last>>

(* ------------------------------ bounds --------------------------------- *)

\* width of usize in the model (usize::BITS scaled down)
UsizeBits == 4

\* rows, columns and coordinates are drawn from 0..MaxDim (and usize::MAX in the
\* specification of the constructors and the index mapper)
MaxDim == 2

\* a fixed board has W backing words, W in 1..MaxW
MaxW == 1

\* the boards of the two-board specification have 1..AlgCells cells
AlgCells == 4

Modulus == 2 ^ UsizeBits

UsizeMax == Modulus - 1

Dims == 0..MaxDim

BigDims == Dims \cup {UsizeMax}

Words == 1..MaxW

(* --------------------------- usize arithmetic -------------------------- *)

\* x - y on usize: panics on underflow with overflow checks, wraps without
USub(x, y) == [panic |-> (x < y) /\ overflow_checks, v |-> (x - y) % Modulus]

\* x * y on usize
UMul(x, y) == [panic |-> (x * y > UsizeMax) /\ overflow_checks, v |-> (x * y) % Modulus]

\* x + y on usize
UAdd(x, y) == [panic |-> (x + y > UsizeMax) /\ overflow_checks, v |-> (x + y) % Modulus]

\* (x * y) + z, as the index expressions of the crate compute it
UMulAdd(x, y, z) ==
    LET m == UMul(x, y)
        s == UAdd(m.v, z)
    IN  [panic |-> m.panic \/ s.panic, v |-> s.v]

(* ------------------------------- boards -------------------------------- *)

NoBoard == [kind |-> "none", W |-> 0, n_rows |-> 0, n_cols |-> 0, bits |-> <<>>]

Zeros(n) == [i \in 1..n |-> FALSE]

\* the outcome of a call that may panic: the board as the call left it
Done(bd) == [panic |-> FALSE, board |-> bd]

Panicked(bd) == [panic |-> TRUE, board |-> bd]

\* BitBoardStatic::<W>::new
new_static(W, n_rows, n_cols) ==
    LET total_bits == UMul(n_rows, n_cols)
        available_bits == UMul(W, UsizeBits)
        bd == [kind |-> "static", W |-> W, n_rows |-> n_rows, n_cols |-> n_cols,
               bits |-> Zeros(W * UsizeBits)]
    IN  IF total_bits.panic \/ available_bits.panic THEN Panicked(NoBoard)
        ELSE IF ~(total_bits.v <= available_bits.v) THEN Panicked(NoBoard)
        ELSE Done(bd)

\* BitBoardDyn::new
new_dyn(n_rows, n_cols) ==
    LET total_bits == UMul(n_rows, n_cols)
        bd == [kind |-> "dyn", W |-> 0, n_rows |-> n_rows, n_cols |-> n_cols,
               bits |-> Zeros(total_bits.v)]
    IN  IF total_bits.panic THEN Panicked(NoBoard) ELSE Done(bd)

(* --------------------------- bitvec primitives ------------------------- *)

\* BitSlice::set(index, value): panics when index is not below the length
BitSliceSet(bd, index, value) ==
    IF index < Len(bd.bits)
    THEN Done([bd EXCEPT !.bits[index + 1] = value])
    ELSE Panicked(bd)

\* BitSlice::get(index) with unwrap_or(&false)
BitSliceGetOrFalse(bd, index) ==
    IF index < Len(bd.bits) THEN bd.bits[index + 1] ELSE FALSE

(* ----------------------------- index mapper ---------------------------- *)

\* BitBoard::index_of and BitBoardDyn::index_of
index_of(bd, row, col) ==
    LET r1 == USub(bd.n_rows, 1)
        c1 == USub(bd.n_cols, 1)
        i  == UMulAdd(row, bd.n_cols, col)
    IN  IF r1.panic THEN [panic |-> TRUE, v |-> 0]
        ELSE IF ~(row <= r1.v) THEN [panic |-> TRUE, v |-> 0]
        ELSE IF c1.panic THEN [panic |-> TRUE, v |-> 0]
        ELSE IF ~(col <= c1.v) THEN [panic |-> TRUE, v |-> 0]
        ELSE IF i.panic THEN [panic |-> TRUE, v |-> 0]
        ELSE [panic |-> FALSE, v |-> i.v]

\* BitBoard::row_col_of: a division by zero panics in every build
row_col_of(bd, index) ==
    IF bd.n_cols = 0 THEN [panic |-> TRUE, row |-> 0, col |-> 0]
    ELSE [panic |-> FALSE, row |-> index \div bd.n_cols, col |-> index % bd.n_cols]

(* ------------------------------ accessors ------------------------------ *)

fill_transposes(bd, value) ==
    [bd EXCEPT !.bits = [i \in 1..Len(bd.bits) |-> value],
               !.n_rows = bd.n_cols, !.n_cols = bd.n_rows]

\* BitBoard::fill and BitBoardDyn::fill: every bit of the storage
fill(bd, value) == [bd EXCEPT !.bits = [i \in 1..Len(bd.bits) |-> value]]

\* BitBoard::set and BitBoardDyn::set
set(bd, row, col, value) ==
    LET new_ind == index_of(bd, row, col)
    IN  IF new_ind.panic THEN Panicked(bd) ELSE BitSliceSet(bd, new_ind.v, value)

\* BitBoard::get
get(bd, row, col) ==
    LET new_ind == index_of(bd, row, col)
    IN  IF new_ind.panic THEN [panic |-> TRUE, v |-> FALSE]
        ELSE [panic |-> FALSE, v |-> BitSliceGetOrFalse(bd, new_ind.v)]

(* ------------------------------ bulk setters --------------------------- *)

RECURSIVE set_col_from(_, _, _, _)
\* the loop of set_col from row r_idx on
set_col_from(bd, r_idx, col, value) ==
    IF r_idx >= bd.n_rows THEN Done(bd)
    ELSE LET idx == UMulAdd(r_idx, bd.n_cols, col)
         IN  IF idx.panic THEN Panicked(bd)
             ELSE LET s == BitSliceSet(bd, idx.v, value)
                  IN  IF s.panic THEN s ELSE set_col_from(s.board, r_idx + 1, col, value)

\* BitBoard::set_col and BitBoardDyn::set_col
set_col(bd, col, value) == set_col_from(bd, 0, col, value)

RECURSIVE set_row_from(_, _, _, _)
\* the loop of set_row from column cidx on
set_row_from(bd, cidx, row, value) ==
    IF cidx >= bd.n_cols THEN Done(bd)
    ELSE LET idx == UMulAdd(row, bd.n_cols, cidx)
         IN  IF idx.panic THEN Panicked(bd)
             ELSE LET s == BitSliceSet(bd, idx.v, value)
                  IN  IF s.panic THEN s ELSE set_row_from(s.board, cidx + 1, row, value)

set_row_first_cell(bd, row, value) == set(bd, row, 0, value)

\* BitBoard::set_row and BitBoardDyn::set_row
set_row(bd, row, value) == set_row_from(bd, 0, row, value)

(* ------------------------------ neighbors ------------------------------ *)

\* a condition whose evaluation may panic
Cond(v) == [panic |-> FALSE, v |-> v]

\* x < n - 1
BelowLast(x, n) == LET d == USub(n, 1) IN [panic |-> d.panic, v |-> x < d.v]

\* g && h, h evaluated only when g is true
AndAlso(g, h) == IF g.panic \/ ~g.v THEN g ELSE h

\* if g { self.set(row, col, value) } after the steps that gave o
SetIf(o, g, row, col, value) ==
    IF o.panic THEN o
    ELSE IF g.panic THEN Panicked(o.board)
    ELSE IF g.v THEN set(o.board, row, col, value)
    ELSE o

set_cardinal_neighbors_wraps(bd, row, col, value) ==
    LET above == SetIf(Done(bd), Cond(row > 0), row - 1, col, value)
        below == SetIf(above, BelowLast(row, bd.n_rows), row + 1, col, value)
        left  == SetIf(below, Cond(col > 0), row, col - 1, value)
        right == IF left.panic THEN left
                 ELSE BitSliceSet(left.board, row * bd.n_cols + col + 1, value)
    IN  right

\* BitBoard::set_cardinal_neighbors and BitBoardDyn::set_cardinal_neighbors
set_cardinal_neighbors(bd, row, col, value) ==
    LET above == SetIf(Done(bd), Cond(row > 0), row - 1, col, value)
        below == SetIf(above, BelowLast(row, bd.n_rows), row + 1, col, value)
        left  == SetIf(below, Cond(col > 0), row, col - 1, value)
        right == SetIf(left, BelowLast(col, bd.n_cols), row, col + 1, value)
    IN  right

set_diagonals_and_centre(bd, row, col, value) ==
    LET al == SetIf(Done(bd), AndAlso(Cond(row > 0), Cond(col > 0)),
                    row - 1, col - 1, value)
        ar == SetIf(al, AndAlso(Cond(row > 0), BelowLast(col, bd.n_cols)),
                    row - 1, col + 1, value)
        bl == SetIf(ar, AndAlso(BelowLast(row, bd.n_rows), Cond(col > 0)),
                    row + 1, col - 1, value)
        br == SetIf(bl, AndAlso(BelowLast(row, bd.n_rows), BelowLast(col, bd.n_cols)),
                    row + 1, col + 1, value)
    IN  SetIf(br, Cond(TRUE), row, col, value)

\* BitBoard::set_diagonals and BitBoardDyn::set_diagonals
set_diagonals(bd, row, col, value) ==
    LET al == SetIf(Done(bd), AndAlso(Cond(row > 0), Cond(col > 0)),
                    row - 1, col - 1, value)
        ar == SetIf(al, AndAlso(Cond(row > 0), BelowLast(col, bd.n_cols)),
                    row - 1, col + 1, value)
        bl == SetIf(ar, AndAlso(BelowLast(row, bd.n_rows), Cond(col > 0)),
                    row + 1, col - 1, value)
        br == SetIf(bl, AndAlso(BelowLast(row, bd.n_rows), BelowLast(col, bd.n_cols)),
                    row + 1, col + 1, value)
    IN  br

set_all_neighbors_cardinal_only(bd, row, col, value) ==
    set_cardinal_neighbors(bd, row, col, value)

\* BitBoard::set_all_neighbors and BitBoardDyn::set_all_neighbors
set_all_neighbors(bd, row, col, value) ==
    LET c == set_cardinal_neighbors(bd, row, col, value)
    IN  IF c.panic THEN c ELSE set_diagonals(c.board, row, col, value)

(* ------------------------------ set algebra ---------------------------- *)

\* what a call of and/or leaves: the operands after the call and Ok(board),
\* Err(DimensionMismatch) or a panic
Ok(self, other, bd) ==
    [panic |-> FALSE, err |-> FALSE, board |-> bd, self |-> self, other |-> other]

DimensionMismatch(self, other) ==
    [panic |-> FALSE, err |-> TRUE, board |-> NoBoard, self |-> self, other |-> other]

AlgPanic(self, other) ==
    [panic |-> TRUE, err |-> FALSE, board |-> NoBoard, self |-> self, other |-> other]

\* BitSlice |= &BitSlice: bit by bit over the common length
BitOrAssign(x, y) ==
    [i \in 1..Len(x) |-> IF i <= Len(y) THEN x[i] \/ y[i] ELSE x[i]]

\* BitSlice &= &BitSlice: bit by bit over the common length; the bits of x past
\* the length of y are cleared or kept (clear_tail)
BitAndAssign(x, y, clear_tail) ==
    [i \in 1..Len(x) |-> IF i <= Len(y) THEN x[i] /\ y[i] ELSE x[i] /\ ~clear_tail]

static_or_in_place(self, other) ==
    IF (self.n_rows # other.n_rows) \/ (self.n_cols # other.n_cols)
    THEN DimensionMismatch(self, other)
    ELSE LET result == [self EXCEPT !.bits = BitOrAssign(self.bits, other.bits)]
         IN  Ok(result, other, result)

static_or_cell_count(self, other) ==
    IF self.n_rows * self.n_cols # other.n_rows * other.n_cols
    THEN DimensionMismatch(self, other)
    ELSE LET result == [self EXCEPT !.bits = BitOrAssign(self.bits, other.bits)]
         IN  Ok(self, other, result)

static_or_as_xor(self, other) ==
    IF (self.n_rows # other.n_rows) \/ (self.n_cols # other.n_cols)
    THEN DimensionMismatch(self, other)
    ELSE LET result == [self EXCEPT !.bits =
                            [i \in 1..Len(self.bits) |->
                                IF i <= Len(other.bits)
                                THEN self.bits[i] # other.bits[i]
                                ELSE self.bits[i]]]
         IN  Ok(self, other, result)

static_or_keeps_self(self, other) ==
    IF (self.n_rows # other.n_rows) \/ (self.n_cols # other.n_cols)
    THEN DimensionMismatch(self, other)
    ELSE Ok(self, other, self)

\* BitBoardStatic::or
static_or(self, other) ==
    IF (self.n_rows # other.n_rows) \/ (self.n_cols # other.n_cols)
    THEN DimensionMismatch(self, other)
    ELSE LET result == [self EXCEPT !.bits = BitOrAssign(self.bits, other.bits)]
         IN  Ok(self, other, result)

static_and_keeps_self(self, other, clear_tail) ==
    IF (self.n_rows # other.n_rows) \/ (self.n_cols # other.n_cols)
    THEN DimensionMismatch(self, other)
    ELSE Ok(self, other, self)

\* BitBoardStatic::and
static_and(self, other, clear_tail) ==
    IF (self.n_rows # other.n_rows) \/ (self.n_cols # other.n_cols)
    THEN DimensionMismatch(self, other)
    ELSE LET result == [self EXCEPT !.bits =
                            BitAndAssign(self.bits, other.bits, clear_tail)]
         IN  Ok(self, other, result)

\* BitBoardDyn::or
dyn_or(self, other) ==
    IF (self.n_rows # other.n_rows) \/ (self.n_cols # other.n_cols)
    THEN DimensionMismatch(self, other)
    ELSE LET new_board == new_dyn(self.n_rows, self.n_cols)
         IN  IF new_board.panic THEN AlgPanic(self, other)
             ELSE Ok(self, other,
                     [new_board.board EXCEPT !.bits = BitOrAssign(self.bits, other.bits)])

\* BitBoardDyn::and
dyn_and(self, other, clear_tail) ==
    IF (self.n_rows # other.n_rows) \/ (self.n_cols # other.n_cols)
    THEN DimensionMismatch(self, other)
    ELSE LET new_board == new_dyn(self.n_rows, self.n_cols)
         IN  IF new_board.panic THEN AlgPanic(self, other)
             ELSE Ok(self, other,
                     [new_board.board EXCEPT !.bits =
                         BitAndAssign(self.bits, other.bits, clear_tail)])

\* derived PartialEq of BitBoardStatic<W> and of BitBoardDyn, on two boards of one type
eq(x, y) == x.bits = y.bits /\ x.n_rows = y.n_rows /\ x.n_cols = y.n_cols

\* the bit of cell (row, col), read as the tests and Display read it: board[idx]
Cell(bd, row, col) == bd.bits[(row * bd.n_cols + col) + 1]

(* ------------------------------- the state ----------------------------- *)

NoRes == [tag |-> "none", board |-> NoBoard]

\* the record of a call: its name, arguments and outcome, and the boards before it
CallOn(on, op, row, col, value, panic, ret, ret2, retb) ==
    [on |-> on, op |-> op, row |-> row, col |-> col, value |-> value, panic |-> panic,
     ret |-> ret, ret2 |-> ret2, retb |-> retb, pre |-> [a |-> a, b |-> b]]

Call(op, row, col, value, panic, ret, ret2, retb) ==
    CallOn("a", op, row, col, value, panic, ret, ret2, retb)

NoCall ==
    [on |-> "a", op |-> "none", row |-> 0, col |-> 0, value |-> FALSE, panic |-> FALSE,
     ret |-> 0, ret2 |-> 0, retb |-> FALSE, pre |-> [a |-> NoBoard, b |-> NoBoard]]

\* a board exists and no call has panicked
Live == a.kind # "none" /\ ~last.panic

\* a call on board a that may change it, with outcome o
Mutate(op, row, col, value, o) ==
    /\ a' = o.board
    /\ last' = Call(op, row, col, value, o.panic, 0, 0, FALSE)
    /\ UNCHANGED <<overflow_checks, b, res>>

\* a call on board a that only reads it
Read(op, row, col, panic, ret, ret2, retb) ==
    /\ last' = Call(op, row, col, FALSE, panic, ret, ret2, retb)
    /\ UNCHANGED <<overflow_checks, a, b, res>>

Init ==
    /\ overflow_checks \in BOOLEAN
    /\ a = NoBoard
    /\ b = NoBoard
    /\ res = NoRes
    /\ last = NoCall

(* ------------------------- calls on a single board --------------------- *)

NewStaticIn(D) ==
    \E W \in Words, n_rows \in D, n_cols \in D :
        /\ a.kind = "none" /\ ~last.panic
        /\ LET o == new_static(W, n_rows, n_cols)
           IN  /\ a' = o.board
               /\ last' = Call("new_static", n_rows, n_cols, FALSE, o.panic, W, 0, FALSE)
        /\ UNCHANGED <<overflow_checks, b, res>>

NewDynIn(D) ==
    \E n_rows \in D, n_cols \in D :
        /\ a.kind = "none" /\ ~last.panic
        /\ LET o == new_dyn(n_rows, n_cols)
           IN  /\ a' = o.board
               /\ last' = Call("new_dyn", n_rows, n_cols, FALSE, o.panic, 0, 0, FALSE)
        /\ UNCHANGED <<overflow_checks, b, res>>

NewStatic == NewStaticIn(Dims)

NewDyn == NewDynIn(Dims)

Fill ==
    \E value \in BOOLEAN :
        /\ Live
        /\ Mutate("fill", 0, 0, value, Done(fill(a, value)))

Set ==
    \E row \in Dims, col \in Dims, value \in BOOLEAN :
        /\ Live
        /\ Mutate("set", row, col, value, set(a, row, col, value))

SetCol ==
    \E col \in Dims, value \in BOOLEAN :
        /\ Live
        /\ Mutate("set_col", 0, col, value, set_col(a, col, value))

SetRow ==
    \E row \in Dims, value \in BOOLEAN :
        /\ Live
        /\ Mutate("set_row", row, 0, value, set_row(a, row, value))

SetCardinalNeighbors ==
    \E row \in Dims, col \in Dims, value \in BOOLEAN :
        /\ Live
        /\ Mutate("set_cardinal_neighbors", row, col, value,
                  set_cardinal_neighbors(a, row, col, value))

SetDiagonals ==
    \E row \in Dims, col \in Dims, value \in BOOLEAN :
        /\ Live
        /\ Mutate("set_diagonals", row, col, value, set_diagonals(a, row, col, value))

SetAllNeighbors ==
    \E row \in Dims, col \in Dims, value \in BOOLEAN :
        /\ Live
        /\ Mutate("set_all_neighbors", row, col, value,
                  set_all_neighbors(a, row, col, value))

\* one board, constructed with rows and columns in Dims, and its mutating calls
Next ==
    \/ NewStatic
    \/ NewDyn
    \/ Fill
    \/ Set
    \/ SetCol
    \/ SetRow
    \/ SetCardinalNeighbors
    \/ SetDiagonals
    \/ SetAllNeighbors

Spec == Init /\ [][Next]_vars

(* ------------------ constructors, index mapper and reads ---------------- *)

NewStaticAny == NewStaticIn(BigDims)

NewDynAny == NewDynIn(BigDims)

IndexOf ==
    \E row \in BigDims, col \in BigDims :
        /\ Live
        /\ LET i == index_of(a, row, col)
           IN  Read("index_of", row, col, i.panic, i.v, 0, FALSE)

\* row_col_of and get are methods of the trait, which only the fixed board has
RowColOf ==
    \E index \in 0..UsizeMax :
        /\ Live /\ a.kind = "static"
        /\ LET rc == row_col_of(a, index)
           IN  Read("row_col_of", index, 0, rc.panic, rc.row, rc.col, FALSE)

Get ==
    \E row \in BigDims, col \in BigDims :
        /\ Live /\ a.kind = "static"
        /\ LET g == get(a, row, col)
           IN  Read("get", row, col, g.panic, 0, 0, g.v)

\* one board of any shape, filled or not, and its reading calls
NextIndex ==
    \/ NewStaticAny
    \/ NewDynAny
    \/ Fill
    \/ IndexOf
    \/ RowColOf
    \/ Get

SpecIndex == Init /\ [][NextIndex]_vars

(* --------------------------- and/or of two boards ---------------------- *)

\* the shapes with at least one and at most AlgCells cells
AlgShapes ==
    {s \in (1..AlgCells) \X (1..AlgCells) : s[1] * s[2] <= AlgCells}

\* two boards of one type: BitBoardStatic<1>, the type of the tests, or BitBoardDyn
InitAlg ==
    /\ overflow_checks \in BOOLEAN
    /\ \E sa \in AlgShapes, sb \in AlgShapes :
          \/ /\ ~new_static(1, sa[1], sa[2]).panic /\ ~new_static(1, sb[1], sb[2]).panic
             /\ a = new_static(1, sa[1], sa[2]).board
             /\ b = new_static(1, sb[1], sb[2]).board
          \/ /\ ~new_dyn(sa[1], sa[2]).panic /\ ~new_dyn(sb[1], sb[2]).panic
             /\ a = new_dyn(sa[1], sa[2]).board
             /\ b = new_dyn(sb[1], sb[2]).board
    /\ res = NoRes
    /\ last = NoCall

\* the boards one mutating call that returns can make of bd
Mutations(bd) ==
    LET outs ==
            {Done(fill(bd, v)) : v \in BOOLEAN}
            \cup {set(bd, r, c, v) : r \in Dims, c \in Dims, v \in BOOLEAN}
            \cup {set_col(bd, c, v) : c \in Dims, v \in BOOLEAN}
            \cup {set_row(bd, r, v) : r \in Dims, v \in BOOLEAN}
            \cup {set_cardinal_neighbors(bd, r, c, v) : r \in Dims, c \in Dims, v \in BOOLEAN}
            \cup {set_diagonals(bd, r, c, v) : r \in Dims, c \in Dims, v \in BOOLEAN}
            \cup {set_all_neighbors(bd, r, c, v) : r \in Dims, c \in Dims, v \in BOOLEAN}
    IN  {o.board : o \in {x \in outs : ~x.panic}}

\* the operands are prepared by any mutating calls when their shapes agree; and/or
\* read nothing but the shapes of operands whose shapes differ, and those are
\* only filled
Prepared(bd, peer) ==
    IF bd.n_rows = peer.n_rows /\ bd.n_cols = peer.n_cols
    THEN Mutations(bd)
    ELSE {fill(bd, v) : v \in BOOLEAN}

PrepareA ==
    /\ res.tag = "none" /\ last.op = "none"
    /\ \E nb \in Prepared(a, b) : a' = nb
    /\ UNCHANGED <<overflow_checks, b, res, last>>

PrepareB ==
    /\ res.tag = "none" /\ last.op = "none"
    /\ \E nb \in Prepared(b, a) : b' = nb
    /\ UNCHANGED <<overflow_checks, a, res, last>>

or(self, other) ==
    IF self.kind = "static" THEN static_or(self, other) ELSE dyn_or(self, other)

and(self, other, clear_tail) ==
    IF self.kind = "static" THEN static_and(self, other, clear_tail)
    ELSE dyn_and(self, other, clear_tail)

\* the call a.and(b) or a.or(b) with outcome r
Combine(op, r) ==
    /\ a' = r.self
    /\ b' = r.other
    /\ res' = [tag |-> IF r.panic THEN "none" ELSE IF r.err THEN "err" ELSE "ok",
               board |-> r.board]
    /\ last' = Call(op, 0, 0, FALSE, r.panic, 0, 0, FALSE)
    /\ UNCHANGED overflow_checks

Or ==
    /\ last.op = "none"
    /\ Combine("or", or(a, b))

And ==
    /\ last.op = "none"
    /\ \E clear_tail \in BOOLEAN : Combine("and", and(a, b, clear_tail))

\* a later mutation of the board that and/or returned
FillRes ==
    \E value \in BOOLEAN :
        /\ res.tag = "ok" /\ last.op \in {"and", "or"}
        /\ res' = [res EXCEPT !.board = fill(res.board, value)]
        /\ last' = CallOn("res", "fill", 0, 0, value, FALSE, 0, 0, FALSE)
        /\ UNCHANGED <<overflow_checks, a, b>>

NextAlg ==
    \/ PrepareA
    \/ PrepareB
    \/ Or
    \/ And
    \/ FillRes

SpecAlg == InitAlg /\ [][NextAlg]_vars

(* ---------------- one board with cells and its mutating calls ----------- *)

\* a board with 1..AlgCells cells: a BitBoardStatic<1> or a BitBoardDyn
InitOps ==
    /\ overflow_checks \in BOOLEAN
    /\ \E s \in AlgShapes :
          \/ /\ ~new_static(1, s[1], s[2]).panic
             /\ a = new_static(1, s[1], s[2]).board
          \/ /\ ~new_dyn(s[1], s[2]).panic
             /\ a = new_dyn(s[1], s[2]).board
    /\ b = NoBoard
    /\ res = NoRes
    /\ last = NoCall

NextOps ==
    \/ Fill
    \/ Set
    \/ SetCol
    \/ SetRow
    \/ SetCardinalNeighbors
    \/ SetDiagonals
    \/ SetAllNeighbors

SpecOps == InitOps /\ [][NextOps]_vars

(* ------- the same calls on a fixed and on a growable board, in step ------ *)

\* a is a BitBoardStatic<1> and b a BitBoardDyn of the same shape
InitPair ==
    /\ overflow_checks \in BOOLEAN
    /\ \E n_rows \in Dims, n_cols \in Dims :
          /\ ~new_static(1, n_rows, n_cols).panic /\ ~new_dyn(n_rows, n_cols).panic
          /\ a = new_static(1, n_rows, n_cols).board
          /\ b = new_dyn(n_rows, n_cols).board
    /\ res = NoRes
    /\ last = NoCall

\* neither board has panicked
LivePair == ~last.panic /\ ~last.retb

\* one call made on both boards, with outcome oa on a and ob on b; panic records
\* the panic of the call on a and retb the panic of the call on b
Both(op, row, col, value, oa, ob) ==
    /\ a' = oa.board
    /\ b' = ob.board
    /\ last' = CallOn("both", op, row, col, value, oa.panic, 0, 0, ob.panic)
    /\ UNCHANGED <<overflow_checks, res>>

PairFill ==
    \E value \in BOOLEAN :
        /\ LivePair
        /\ Both("fill", 0, 0, value, Done(fill(a, value)), Done(fill(b, value)))

PairSet ==
    \E row \in Dims, col \in Dims, value \in BOOLEAN :
        /\ LivePair
        /\ Both("set", row, col, value, set(a, row, col, value), set(b, row, col, value))

PairSetCol ==
    \E col \in Dims, value \in BOOLEAN :
        /\ LivePair
        /\ Both("set_col", 0, col, value, set_col(a, col, value), set_col(b, col, value))

PairSetRow ==
    \E row \in Dims, value \in BOOLEAN :
        /\ LivePair
        /\ Both("set_row", row, 0, value, set_row(a, row, value), set_row(b, row, value))

PairSetCardinalNeighbors ==
    \E row \in Dims, col \in Dims, value \in BOOLEAN :
        /\ LivePair
        /\ Both("set_cardinal_neighbors", row, col, value,
                set_cardinal_neighbors(a, row, col, value),
                set_cardinal_neighbors(b, row, col, value))

PairSetDiagonals ==
    \E row \in Dims, col \in Dims, value \in BOOLEAN :
        /\ LivePair
        /\ Both("set_diagonals", row, col, value,
                set_diagonals(a, row, col, value), set_diagonals(b, row, col, value))

PairSetAllNeighbors ==
    \E row \in Dims, col \in Dims, value \in BOOLEAN :
        /\ LivePair
        /\ Both("set_all_neighbors", row, col, value,
                set_all_neighbors(a, row, col, value), set_all_neighbors(b, row, col, value))

NextPair ==
    \/ PairFill
    \/ PairSet
    \/ PairSetCol
    \/ PairSetRow
    \/ PairSetCardinalNeighbors
    \/ PairSetDiagonals
    \/ PairSetAllNeighbors

SpecPair == InitPair /\ [][NextPair]_vars

(* =============================== claims ================================ *)

\* (row, col) lies outside the shape of bd
OutOfRange(bd, row, col) == row >= bd.n_rows \/ col >= bd.n_cols

\* C1: get(row, col) never fails: every call returns a boolean, and the boolean
\* is false when row >= n_rows or col >= n_cols.
C1_GetNeverFails ==
    last.op = "get" =>
        /\ ~last.panic
        /\ OutOfRange(a, last.row, last.col) => last.retb = FALSE

\* C7: index_of(row, col) aborts for every (row, col) with row >= n_rows or
\* col >= n_cols on every shape, zero rows or columns included, and returns an
\* index only for coordinates inside the shape.
C7_IndexOfAbortsOutOfRange ==
    last.op = "index_of" => (last.panic <=> OutOfRange(a, last.row, last.col))

\* C8: on every board with n_rows >= 1 and n_cols >= 1, index_of(r, c) is
\* r * n_cols + c, lies in [0, n_rows * n_cols), differs for different valid
\* (r, c), and row_col_of is its exact inverse in both directions.
C8_IndexRoundTrip ==
    (a.n_rows >= 1 /\ a.n_cols >= 1) =>
        /\ (last.op = "index_of" /\ ~OutOfRange(a, last.row, last.col)) =>
              /\ ~last.panic
              /\ last.ret = last.row * a.n_cols + last.col
              /\ last.ret < a.n_rows * a.n_cols
              /\ \A r \in BigDims, c \in BigDims :
                    (~OutOfRange(a, r, c) /\ <<r, c>> # <<last.row, last.col>>) =>
                        index_of(a, r, c).v # last.ret
              /\ LET rc == row_col_of(a, last.ret)
                 IN  ~rc.panic /\ rc.row = last.row /\ rc.col = last.col
        /\ (last.op = "row_col_of" /\ last.row < a.n_rows * a.n_cols) =>
              /\ ~last.panic
              /\ LET i == index_of(a, last.ret, last.ret2)
                 IN  ~i.panic /\ i.v = last.row

\* C9: BitBoardStatic::<W>::new(n_rows, n_cols) fails exactly when the product
\* n_rows * n_cols, taken in the integers, exceeds W * usize::BITS, and no fixed
\* board exists whose cells do not all fit in its storage.
C9_NewStaticChecksCapacity ==
    /\ last.op = "new_static" =>
          (last.panic <=> last.row * last.col > last.ret * UsizeBits)
    /\ a.kind = "static" => a.n_rows * a.n_cols <= Len(a.bits)

Mutators ==
    {"set", "set_row", "set_col", "set_cardinal_neighbors", "set_diagonals",
     "set_all_neighbors"}

\* C10: a mutating call that aborts because of an out-of-range row or col has
\* changed no cell: the board at the abort is the board before the call.
C10_AbortChangesNothing ==
    (last.op \in Mutators /\ last.panic /\ OutOfRange(last.pre.a, last.row, last.col)) =>
        a = last.pre.a

(* ------------------------- claims about and/or ------------------------- *)

\* the receiver and the argument of the recorded a.and(b) or a.or(b), as they
\* were before it
Self == last.pre.a

Other == last.pre.b

SameShape(x, y) == x.n_rows = y.n_rows /\ x.n_cols = y.n_cols

Cells(bd) == (0..(bd.n_rows - 1)) \X (0..(bd.n_cols - 1))

AllCells(bd, v) == \A rc \in Cells(bd) : Cell(bd, rc[1], rc[2]) = v

SameCells(x, y) == \A rc \in Cells(x) : Cell(x, rc[1], rc[2]) = Cell(y, rc[1], rc[2])

\* a fixed board with a slack bit (a storage bit past the cells) that is true
SlackSet(bd) == \E i \in 1..Len(bd.bits) : i > bd.n_rows * bd.n_cols /\ bd.bits[i]

\* C2: for boards of one shape, or and and succeed and return a board of that
\* shape whose every cell is the OR, or the AND, of the operands' cells; for the
\* fixed and for the growable board.
C2_AndOrCellwise ==
    (last.op \in {"and", "or"} /\ SameShape(Self, Other)) =>
        /\ res.tag = "ok"
        /\ SameShape(res.board, Self)
        /\ \A rc \in Cells(Self) :
              Cell(res.board, rc[1], rc[2]) =
                  IF last.op = "or"
                  THEN Cell(Self, rc[1], rc[2]) \/ Cell(Other, rc[1], rc[2])
                  ELSE Cell(Self, rc[1], rc[2]) /\ Cell(Other, rc[1], rc[2])

C2_Witness ==
    /\ last.op = "or" /\ res.tag = "ok" /\ Self.kind = "static"
    /\ Self.n_rows = 1 /\ Self.n_cols = 3
    /\ Cell(Self, 0, 0) /\ ~Cell(Other, 0, 0)
    /\ Cell(Self, 0, 1) /\ Cell(Other, 0, 1)
    /\ ~Cell(Self, 0, 2) /\ ~Cell(Other, 0, 2)

\* C3: and and or return DimensionMismatch exactly when the shapes differ, also
\* when both shapes have the same number of cells, return a board otherwise,
\* and never panic.
C3_MismatchIffShapesDiffer ==
    last.op \in {"and", "or"} =>
        /\ ~last.panic
        /\ res.tag = (IF SameShape(Self, Other) THEN "ok" ELSE "err")

C3_Witness ==
    /\ last.op = "or" /\ res.tag = "err"
    /\ Self.n_rows # Other.n_rows
    /\ Self.n_rows * Self.n_cols = Other.n_rows * Other.n_cols

\* C4: and and or leave both operands as they were, whether they return a board
\* or DimensionMismatch, and a later mutation of the returned board leaves them
\* as they were too.
C4_OperandsUnchanged ==
    (last.op \in {"and", "or"} \/ last.on = "res") =>
        a = last.pre.a /\ b = last.pre.b

C4_Witness ==
    /\ last.on = "res" /\ last.op = "fill" /\ last.value
    /\ AllCells(res.board, TRUE)
    /\ ~AllCells(a, TRUE) /\ ~AllCells(b, TRUE) /\ ~AllCells(a, FALSE)

\* C5: for two boards of one shape (and one type), a.and(b) == b.and(a) and
\* a.or(b) == b.or(a) under the derived equality.
C5_Commutative ==
    (last.op \in {"and", "or"} /\ SameShape(Self, Other) /\ Self.W = Other.W) =>
        /\ last.op = "or" => eq(res.board, or(Other, Self).board)
        /\ last.op = "and" =>
              \A clear_tail \in BOOLEAN : eq(res.board, and(Other, Self, clear_tail).board)

C5_Witness ==
    /\ last.op = "or" /\ res.tag = "ok" /\ Self.W = Other.W
    /\ Self.bits # Other.bits
    /\ res.board.bits # Self.bits /\ res.board.bits # Other.bits

\* C6: with the all-false or the all-true board of b's shape on either side,
\* however the all-true board was made: all-false AND b is all-false, all-false
\* OR b has b's cells, all-true AND b has b's cells, all-true OR b is all-true.
C6_IdentityLaws ==
    (last.op \in {"and", "or"} /\ SameShape(Self, Other)) =>
        /\ res.tag = "ok"
        /\ last.op = "and" =>
              /\ (AllCells(Self, FALSE) \/ AllCells(Other, FALSE)) =>
                    AllCells(res.board, FALSE)
              /\ AllCells(Self, TRUE) => SameCells(res.board, Other)
              /\ AllCells(Other, TRUE) => SameCells(res.board, Self)
        /\ last.op = "or" =>
              /\ (AllCells(Self, TRUE) \/ AllCells(Other, TRUE)) =>
                    AllCells(res.board, TRUE)
              /\ AllCells(Self, FALSE) => SameCells(res.board, Other)
              /\ AllCells(Other, FALSE) => SameCells(res.board, Self)

C6_Witness ==
    /\ last.op = "and" /\ res.tag = "ok" /\ Self.kind = "static"
    /\ AllCells(Self, TRUE) /\ ~SlackSet(Self) /\ Len(Self.bits) > Self.n_rows * Self.n_cols
    /\ ~AllCells(Other, TRUE) /\ ~AllCells(Other, FALSE) /\ SlackSet(Other)

(* -------------------- claims about the single board -------------------- *)

\* the board before the recorded call
Pre == last.pre.a

\* the cells of bd other than those of the set S have the value they have in old
OthersKept(bd, old, S) ==
    \A rc \in Cells(old) \ S : Cell(bd, rc[1], rc[2]) = Cell(old, rc[1], rc[2])

\* C11: on a fixed board no sequence of public operations writes a storage bit
\* at index >= n_rows * n_cols: every slack bit is still false.
C11_SlackStaysFalse == a.kind = "static" => ~SlackSet(a)

\* C12: the same sequence of calls on a fixed and on a growable board of the
\* same shape gives the same outcome at every step: one aborts exactly when the
\* other does, and the cells and the shape agree after every call that returns.
C12_SameOutcome ==
    last.on = "both" =>
        /\ last.panic = last.retb
        /\ ~last.panic => (SameShape(a, b) /\ SameCells(a, b))

\* C13: set(row, col, v) with (row, col) inside the shape makes cell (row, col)
\* equal v (a following get returns v) and leaves every other cell and the
\* shape as they were; with row >= n_rows or col >= n_cols it aborts.
C13_SetWritesOneCell ==
    (last.op = "set" /\ last.on = "a") =>
        IF OutOfRange(Pre, last.row, last.col)
        THEN last.panic
        ELSE /\ ~last.panic
             /\ SameShape(a, Pre)
             /\ Cell(a, last.row, last.col) = last.value
             /\ a.kind = "static" =>
                   get(a, last.row, last.col) = [panic |-> FALSE, v |-> last.value]
             /\ OthersKept(a, Pre, {<<last.row, last.col>>})

Abs(x) == IF x < 0 THEN 0 - x ELSE x

\* after the recorded call with a centre inside the shape: the call returned, the
\* shape is kept, the cells of S have the value of the call and the others are kept
SetsExactly(S) ==
    /\ ~last.panic
    /\ SameShape(a, Pre)
    /\ \A rc \in Cells(Pre) :
          Cell(a, rc[1], rc[2]) =
              IF rc \in S THEN last.value ELSE Cell(Pre, rc[1], rc[2])

C18_ShapeImmutable ==
    [][/\ SameShape(a', a)
       /\ SameShape(b', b)
       /\ res'.tag = "ok" => (SameShape(res'.board, a') /\ SameShape(res'.board, b'))]_vars

C18_Witness ==
    /\ res.tag = "ok" /\ last.op = "and"
    /\ a.n_rows = 1 /\ a.n_cols = 2 /\ Cell(a, 0, 0) /\ ~Cell(a, 0, 1)
    /\ AllCells(b, TRUE)
    /\ res.board.n_rows = 1 /\ res.board.n_cols = 2

\* C19: two fixed boards of one capacity and one shape, each reached by public
\* operations, compare equal exactly when every cell has the same value in both.
C19_EqualIffSameCells ==
    (a.kind = "static" /\ b.kind = "static" /\ a.W = b.W /\ SameShape(a, b)) =>
        (eq(a, b) <=> SameCells(a, b))

\* C20: set_col(col, v) with col >= n_cols and set_row(row, v) with
\* row >= n_rows change no cell inside the shape, whether they abort or return.
C20_OutOfRangeKeepsCells ==
    (\/ last.op = "set_col" /\ last.col >= Pre.n_cols
     \/ last.op = "set_row" /\ last.row >= Pre.n_rows) =>
        SameCells(Pre, a)

====
